---- MODULE Spec2Model ----
(***************************************************************************)
(* A model of the URL shortener (src/src/index.tsx, "Variant A") and of    *)
(* the earlier target-keyed create handler listed in src/unnamed/part_000  *)
(* ("Variant B").  The only shared state is the KV namespace; every        *)
(* request is an independent handler run that is suspended at each         *)
(* `await` on the store, so one action is one run-to-the-next-await.       *)
(***************************************************************************)
EXTENDS Integers, Sequences, FiniteSets, TLC

(* ------------------------------ bounds --------------------------------- *)
\* number of requests the service receives in a run
MaxReqs == 3
\* deepest createKey recursion explored (the code itself has no bound)
MaxDepth == 2
\* number of requests the service handles at the same time
MaxInFlight == 2

(* --------------------------- program constants ------------------------- *)
\* uuid.substring(0, 6)
KeyLen == 6

\* the value kv.get resolves to for an absent key
Null == "<null>"

\* scheme+host of the incoming request (c.req.url)
Origin == "https://sho.rt"

\* the alphabet of the route pattern [0-9a-z]
Alnum ==
  {"0","1","2","3","4","5","6","7","8","9",
   "a","b","c","d","e","f","g","h","i","j","k","l","m",
   "n","o","p","q","r","s","t","u","v","w","x","y","z"}

\* the letters of Alnum
Alpha == Alnum \ {"0","1","2","3","4","5","6","7","8","9"}

(* ------------------------------ inputs --------------------------------- *)
\* values crypto.randomUUID() may return; the first two share their first
\* six characters, so two different draws can give the same key
UUIDs ==
  {"a1b2c3d4-58cc-4372-a567-0e02b2c3d479",
   "a1b2c3f7-1c2d-4e3f-8a9b-0c1d2e3f4a5b",
   "0f9e8d7c-6b5a-4f4e-9d3c-2b1a0f9e8d7c"}

\* values of the form field `url`
FormUrls == {"https://example.com/page", "https://hono.dev/", "not-a-url"}

\* request paths
Paths == {"/", "/a1b2c3", "/nope"}

\* the requests a client may send
Requests ==
  [method : {"GET"}, path : Paths, sameOrigin : {TRUE}, url : {""}]
    \cup
  [method : {"POST"}, path : {"/create"}, sameOrigin : BOOLEAN, url : FormUrls]

Reqs == 1..MaxReqs

(* ------------------------------- state --------------------------------- *)
VARIABLES
  store,   \* the KV namespace: a function from the stored keys to their values
  req,     \* req[r]: the handling of request r: its input, position, locals and
           \* response, the store operations it issued (io) and, for GET /:key,
           \* the number of puts the store had served when it read (seen)
  puts     \* the puts the store has served, in order: [r, key, val]

vars == <<store, req, puts>>

(* ------------------------- the KV namespace ---------------------------- *)
\* kv.get(key): the stored value, or null
KVGet(s, k) == IF k \in DOMAIN s THEN s[k] ELSE Null

\* a put that keeps the value of a key already present
KVPutIfAbsent(s, k, v) ==
  IF k \in DOMAIN s THEN s ELSE [x \in DOMAIN s \cup {k} |-> IF x = k THEN v ELSE s[x]]

\* kv.put(key, value): unconditional write
KVPut(s, k, v) == [x \in DOMAIN s \cup {k} |-> IF x = k THEN v ELSE s[x]]

\* the test of `result` instead of `!result`
FalsyInverted(v) == ~(v = Null \/ v = "")

\* a test that takes every result for "absent"
FalsyAlways(v) == TRUE

\* JavaScript `!result` for a string-or-null
Falsy(v) == v = Null \/ v = ""

(* --------------------------- string helpers ---------------------------- *)
Char(s, i) == SubSeq(s, i, i)

\* ':key{[0-9a-z]{6}}' : exactly six characters of [0-9a-z]
MatchesKeyPattern(s) ==
  /\ Len(s) = KeyLen
  /\ \A i \in 1..Len(s) : Char(s, i) \in Alnum

\* a substring that runs past the first group of the uuid
KeyOfUuidLong(uuid) == SubSeq(uuid, 1, KeyLen + 3)

\* uuid.substring(0, 6)
KeyOfUuid(uuid) == SubSeq(uuid, 1, KeyLen)

\* z.string().url(): the string parses as an absolute URL, that is, it has
\* a scheme (a letter, then letters, digits, + - .) ended by ':', and an
\* http(s) URL has something after the slashes that follow the scheme
SchemeChar(c) == c \in Alnum \cup {"+", "-", "."}

HasSchemeAt(s, i) ==
  /\ i > 1
  /\ Char(s, i) = ":"
  /\ Char(s, 1) \in Alpha
  /\ \A j \in 1..(i - 1) : SchemeChar(Char(s, j))

RECURSIVE SkipSlashes(_, _)
SkipSlashes(s, i) ==
  IF i <= Len(s) /\ Char(s, i) = "/" THEN SkipSlashes(s, i + 1) ELSE i

IsUrl(s) ==
  \E i \in 1..Len(s) :
    /\ HasSchemeAt(s, i)
    /\ SubSeq(s, 1, i - 1) \in {"http", "https"} => SkipSlashes(s, i + 1) <= Len(s)

\* new URL(`/${key}`, c.req.url).toString()
ShortenUrl(key) == Origin \o "/" \o key

(* ------------------------------ responses ------------------------------ *)
NoResp == [status |-> 0, page |-> "", value |-> ""]
FormPage == [status |-> 200, page |-> "form", value |-> ""]
ErrorPage == [status |-> 200, page |-> "error", value |-> "/"]
CreatedPage(key) == [status |-> 200, page |-> "created", value |-> ShortenUrl(key)]
Redirect(to) == [status |-> 302, page |-> "", value |-> to]
Forbidden == [status |-> 403, page |-> "", value |-> ""]
NotFoundResp == [status |-> 404, page |-> "", value |-> ""]

(* ------------------------------- routing ------------------------------- *)
\* the middleware and handler a request runs through, in order.
\* Variant A: app.get(key), app.get('/'), app.post('/create', csrf(), validator, handler)
\* the chain with the validator registered before the CSRF guard
PostCreateChainSwapped == <<"validator", "csrf", "create">>

PostCreateChain == <<"csrf", "validator", "create">>

Route(method, path) ==
  IF method = "GET" /\ Len(path) > 1 /\ Char(path, 1) = "/"
       /\ MatchesKeyPattern(SubSeq(path, 2, Len(path)))
    THEN <<"getKey">>
  ELSE IF method = "GET" /\ path = "/" THEN <<"getRoot">>
  ELSE IF method = "POST" /\ path = "/create" THEN PostCreateChain
  ELSE <<>>

\* c.req.param('key')
ParamKey(path) == SubSeq(path, 2, Len(path))

\* csrf(): a form submission is let through only from the site's own origin
CsrfAllows(q) == q.sameOrigin

Idle ==
  [pc |-> "idle", method |-> "", path |-> "", sameOrigin |-> TRUE, url |-> "",
   chain |-> <<>>, idx |-> 0, ran |-> <<>>, stack |-> <<>>, uuid |-> "",
   key |-> Null, io |-> <<>>, seen |-> 0, resp |-> NoResp]

Init ==
  /\ store = [k \in {} |-> ""]
  /\ req = [r \in Reqs |-> Idle]
  /\ puts = << >>

\* the step the chain of request r is at
At(r, stage) ==
  /\ req[r].pc = "mw"
  /\ req[r].idx <= Len(req[r].chain)
  /\ req[r].chain[req[r].idx] = stage

Respond(r, resp) == [req EXCEPT ![r].pc = "done", ![r].resp = resp]

\* the stage ran and called next()
Pass(r, stage) ==
  [req EXCEPT ![r].idx = @ + 1, ![r].ran = Append(@, stage)]

\* the stage ran and answered itself
Stop(r, stage, resp) ==
  [req EXCEPT ![r].pc = "done", ![r].ran = Append(@, stage), ![r].resp = resp]

\* the requests being handled
InFlight == {p \in Reqs : req[p].pc \notin {"idle", "done"}}

\* request r, the next one to come, may come
MayArrive(r) ==
  /\ req[r].pc = "idle"
  /\ \A p \in Reqs : p < r => req[p].pc # "idle"
  /\ Cardinality(InFlight) < MaxInFlight

\* request q received as r, to run through `chain`
Received(r, q, chain) ==
  [req EXCEPT ![r] =
     [Idle EXCEPT !.pc = "mw", !.method = q.method, !.path = q.path,
                  !.sameOrigin = q.sameOrigin, !.url = q.url,
                  !.chain = chain, !.idx = 1]]

\* a request reaches the application of src/src/index.tsx
Arrive(r) ==
  /\ MayArrive(r)
  /\ \E q \in Requests : req' = Received(r, q, Route(q.method, q.path))
  /\ UNCHANGED <<store, puts>>

\* no route matched: the default not-found response
NotFound(r) ==
  /\ req[r].pc = "mw"
  /\ req[r].idx > Len(req[r].chain)
  /\ req' = Respond(r, NotFoundResp)
  /\ UNCHANGED <<store, puts>>

\* a store operation, as the request that issued it records it
Io(op, key, val) == [op |-> op, key |-> key, val |-> val]

\* the redirect with its test inverted
RedirectForInverted(url) == IF url # Null THEN "/" ELSE url

\* the target of the redirect of GET /:key
RedirectFor(url) == IF url = Null THEN "/" ELSE url

\* a GET /:key that remembers a miss in the store
GetKeyStoringMiss(r) ==
  /\ At(r, "getKey")
  /\ LET key == ParamKey(req[r].path)
         url == KVGet(store, key)
     IN /\ req' = [Stop(r, "getKey", Redirect(RedirectFor(url)))
                     EXCEPT ![r].io = Append(@, Io("get", key, url)),
                            ![r].seen = Len(puts)]
        /\ store' = IF url = Null THEN KVPut(store, key, "/") ELSE store
  /\ UNCHANGED puts

\* app.get('/:key{[0-9a-z]{6}}', ...)
GetKey(r) ==
  /\ At(r, "getKey")
  /\ LET key == ParamKey(req[r].path)
         url == KVGet(store, key)
     IN req' = [Stop(r, "getKey", Redirect(RedirectFor(url)))
                 EXCEPT ![r].io = Append(@, Io("get", key, url)),
                        ![r].seen = Len(puts)]
  /\ UNCHANGED <<store, puts>>

\* app.get('/', ...)
GetRoot(r) ==
  /\ At(r, "getRoot")
  /\ req' = Stop(r, "getRoot", FormPage)
  /\ UNCHANGED <<store, puts>>

\* csrf()
Csrf(r) ==
  /\ At(r, "csrf")
  /\ req' = IF CsrfAllows(req[r]) THEN Pass(r, "csrf") ELSE Stop(r, "csrf", Forbidden)
  /\ UNCHANGED <<store, puts>>

\* a validator whose hook tests `result.success` instead of `!result.success`
ValidatorInverted(r) ==
  /\ At(r, "validator")
  /\ req' = IF ~IsUrl(req[r].url) THEN Pass(r, "validator")
                                  ELSE Stop(r, "validator", ErrorPage)
  /\ UNCHANGED <<store, puts>>

\* zValidator('form', schema, hook)
Validator(r) ==
  /\ At(r, "validator")
  /\ req' = IF IsUrl(req[r].url) THEN Pass(r, "validator")
                                 ELSE Stop(r, "validator", ErrorPage)
  /\ UNCHANGED <<store, puts>>

\* the handler of POST /create calls createKey; createKey up to the
\* completion of `await kv.get(key)`: a new frame with its own uuid, key and
\* result; the frame then puts, or calls createKey again
CreateKeyGet(r) ==
  /\ At(r, "create") \/ req[r].pc = "call"
  /\ Len(req[r].stack) < MaxDepth
  /\ \E uuid \in UUIDs :
       LET key == KeyOfUuid(uuid)
           result == KVGet(store, key)
       IN req' = [req EXCEPT
                    ![r].ran = IF At(r, "create") THEN Append(@, "create") ELSE @,
                    ![r].stack = Append(@, [key |-> key, result |-> result]),
                    ![r].io = Append(@, Io("get", key, result)),
                    ![r].pc = IF Falsy(result) THEN "put" ELSE "call"]
  /\ UNCHANGED <<store, puts>>

\* createKey called again below the frames kept: the same code as
\* CreateKeyGet, with the new frame kept in place of the innermost one. No
\* frame but the outermost (its key is returned) and the innermost (its key
\* is put) is read again.
CreateKeyGetDeep(r) ==
  /\ req[r].pc = "call"
  /\ Len(req[r].stack) >= MaxDepth
  /\ \E uuid \in UUIDs :
       LET key == KeyOfUuid(uuid)
           result == KVGet(store, key)
           n == Len(req[r].stack)
       IN req' = [req EXCEPT
                    ![r].stack = [@ EXCEPT ![n] = [key |-> key, result |-> result]],
                    ![r].io = [@ EXCEPT ![Len(@)] = Io("get", key, result)],
                    ![r].pc = IF Falsy(result) THEN "put" ELSE "call"]
  /\ UNCHANGED <<store, puts>>

\* the key the outermost createKey call returns once the innermost frame
\* has put: each frame returns its own `key`, whatever the inner call returned
ReturnedKey(stack) == stack[1].key

\* `await kv.put(key, url)` of the innermost frame, the return through all
\* the frames, and the rendering of the result page
CreateKeyPut(r) ==
  /\ req[r].pc = "put"
  /\ LET key == req[r].stack[Len(req[r].stack)].key
     IN /\ store' = KVPut(store, key, req[r].url)
        /\ puts' = Append(puts, [r |-> r, key |-> key, val |-> req[r].url])
        /\ req' = [Respond(r, CreatedPage(ReturnedKey(req[r].stack)))
                     EXCEPT ![r].io = Append(@, Io("put", key, req[r].url))]

\* Variant B: app.post('/create', validator, handler), no csrf()
PostCreateChainB == <<"validator", "createB">>

RouteB(method, path) ==
  IF method = "POST" /\ path = "/create" THEN PostCreateChainB
  ELSE Route(method, path)

\* a request reaches the application of the earlier listing
ArriveB(r) ==
  /\ MayArrive(r)
  /\ \E q \in Requests : req' = Received(r, q, RouteB(q.method, q.path))
  /\ UNCHANGED <<store, puts>>

\* Variant B handler up to the completion of `await c.env.KV.get(url)`:
\* the store is asked for the TARGET as if it were a key; a value found is
\* taken as the key and rendered
CreateBGet(r) ==
  /\ At(r, "createB")
  /\ \E uuid \in UUIDs :
       LET key == KVGet(store, req[r].url)
           got == [req EXCEPT ![r].ran = Append(@, "createB"),
                              ![r].uuid = uuid,
                              ![r].key = key,
                              ![r].io = Append(@, Io("get", req[r].url, key))]
       IN req' = IF Falsy(key)
                   THEN [got EXCEPT ![r].pc = "putB"]
                   ELSE [got EXCEPT ![r].pc = "done", ![r].resp = CreatedPage(key)]
  /\ UNCHANGED <<store, puts>>

\* key = uuid.substring(0, 6); await c.env.KV.put(key, url); render
CreateBPut(r) ==
  /\ req[r].pc = "putB"
  /\ LET key == KeyOfUuid(req[r].uuid)
     IN /\ store' = KVPut(store, key, req[r].url)
        /\ puts' = Append(puts, [r |-> r, key |-> key, val |-> req[r].url])
        /\ req' = [Respond(r, CreatedPage(key))
                     EXCEPT ![r].key = key,
                            ![r].io = Append(@, Io("put", key, req[r].url))]

\* an action of a request that both variants of the application share
Common(r) ==
  \/ NotFound(r)
  \/ GetKey(r)
  \/ GetRoot(r)
  \/ Validator(r)

VariantA(r) ==
  \/ Csrf(r)
  \/ CreateKeyGet(r)
  \/ CreateKeyPut(r)

VariantB(r) ==
  \/ CreateBGet(r)
  \/ CreateBPut(r)

\* requests are handled concurrently: any request may take its next step
Next == \E r \in Reqs : Arrive(r) \/ Common(r) \/ VariantA(r)

Spec == Init /\ [][Next]_vars

\* requests are handled one at a time
NoneInFlight == InFlight = {}

ArriveSeq(r) == NoneInFlight /\ Arrive(r)

NextSeq == \E r \in Reqs : ArriveSeq(r) \/ Common(r) \/ VariantA(r)

SpecSeq == Init /\ [][NextSeq]_vars

\* createKey with no bound on its retries, requests handled one at a time.
\* The draw is fair: a request that
\* can again and again draw a free key does draw one; and the store answers
\* a put.
DrawFree(r) == (CreateKeyGet(r) \/ CreateKeyGetDeep(r)) /\ req'[r].pc = "put"

NextLive ==
  \E r \in Reqs : ArriveSeq(r) \/ Common(r) \/ VariantA(r) \/ CreateKeyGetDeep(r)

SpecLive ==
  /\ Init /\ [][NextLive]_vars
  /\ \A r \in Reqs : SF_vars(DrawFree(r)) /\ WF_vars(CreateKeyPut(r))

\* the application of the earlier listing, requests handled concurrently
NextB == \E r \in Reqs : ArriveB(r) \/ Common(r) \/ VariantB(r)

SpecB == Init /\ [][NextB]_vars

(* ------------------------------ properties ----------------------------- *)
IsPostCreate(r) == req[r].method = "POST" /\ req[r].path = "/create"

Done(r) == req[r].pc = "done"

\* request r was answered with the result page
Created(r) == Done(r) /\ req[r].resp.page = "created"

\* the key of the short URL a result page shows: what follows "<origin>/"
KeyShown(r) == SubSeq(req[r].resp.value, Len(Origin) + 2, Len(req[r].resp.value))

\* request r has put key k
HasPut(r, k) == \E i \in 1..Len(puts) : puts[i].r = r /\ puts[i].key = k

\* request r has put something
HasPutAny(r) == \E i \in 1..Len(puts) : puts[i].r = r

\* the candidate keys createKey can draw
Keys == {KeyOfUuid(u) : u \in UUIDs}

\* the value of the last put of key k
LastPutVal(k) ==
  LET I == {i \in 1..Len(puts) : puts[i].key = k}
  IN puts[CHOOSE i \in I : \A j \in I : j <= i].val

\* C1 (as claimed): every POST /create that is answered with the result
\* page shows a key k with store[k] = the submitted url, so that GET /k
\* redirects to that url.
C1_RoundTrip ==
  \A r \in Reqs :
    Created(r) =>
      /\ KVGet(store, KeyShown(r)) = req[r].url
      /\ RedirectFor(KVGet(store, KeyShown(r))) = req[r].url

\* C2 (as claimed): the keys shown by any two successful POST /create
\* requests differ.
C2_DistinctKeys ==
  \A r1, r2 \in Reqs :
    (r1 # r2 /\ Created(r1) /\ Created(r2)) => KeyShown(r1) # KeyShown(r2)

\* C3: with requests run one at a time, a candidate key that createKey found
\* present is never put by that request, the request goes on to another
\* candidate, and the mapping found for the colliding key stays in the store.
C3_CollisionHandling ==
  \A r \in Reqs :
    \A i \in 1..Len(req[r].stack) :
      LET f == req[r].stack[i]
      IN f.result # Null =>
           /\ ~HasPut(r, f.key)
           /\ i < Len(req[r].stack) \/ req[r].pc = "call"
           /\ KVGet(store, f.key) = f.result

C3_Witness ==
  \E r \in Reqs :
    /\ Created(r)
    /\ Len(req[r].stack) > 1
    /\ req[r].stack[1].result # Null

\* the form values the validator's schema rejects
InvalidFormUrls == {u \in FormUrls : ~IsUrl(u)}

\* C4 (as claimed): every POST /create whose url is not a valid absolute URL
\* is answered with the error page, without createKey, a get or a put.
C4_Original ==
  \A r \in Reqs :
    (Done(r) /\ IsPostCreate(r) /\ req[r].url \in InvalidFormUrls) =>
      /\ req[r].resp = ErrorPage
      /\ req[r].stack = << >>
      /\ req[r].io = << >>
      /\ ~HasPutAny(r)

\* C4 (amended): every POST /create that passes the CSRF guard and whose url
\* is not a valid absolute URL is answered with the error page; createKey is
\* not called and the request issues no get and no put.
C4_ValidationFailure ==
  \A r \in Reqs :
    (IsPostCreate(r) /\ req[r].sameOrigin /\ req[r].url \in InvalidFormUrls) =>
      /\ Done(r) => req[r].resp = ErrorPage
      /\ "create" \notin {req[r].ran[i] : i \in 1..Len(req[r].ran)}
      /\ req[r].stack = << >>
      /\ req[r].io = << >>
      /\ ~HasPutAny(r)

C4_Witness ==
  \E r \in Reqs :
    /\ Done(r) /\ IsPostCreate(r) /\ req[r].sameOrigin /\ req[r].url \in InvalidFormUrls
    /\ req[r].resp = ErrorPage
    /\ req[r].ran = <<"csrf", "validator">>

\* C5: on POST /create the stages run in the order CSRF guard, validator,
\* handler; a request the guard rejects runs nothing after the guard, issues
\* no get and no put, and is answered 403.
C5_CsrfFirst ==
  \A r \in Reqs :
    IsPostCreate(r) =>
      /\ req[r].ran \in {<< >>, <<"csrf">>, <<"csrf", "validator">>,
                         <<"csrf", "validator", "create">>}
      /\ ~req[r].sameOrigin =>
           /\ req[r].ran \in {<< >>, <<"csrf">>}
           /\ req[r].stack = << >>
           /\ req[r].io = << >>
           /\ ~HasPutAny(r)
           /\ Done(r) => req[r].resp = Forbidden

C5_Witness ==
  \E r \in Reqs :
    /\ Done(r) /\ IsPostCreate(r) /\ ~req[r].sameOrigin
    /\ IsUrl(req[r].url)
    /\ req[r].resp = Forbidden
    /\ store # [k \in {} |-> ""]

C7_UnknownKey ==
  \A r \in Reqs :
    (/\ Done(r) /\ req[r].method = "GET"
     /\ Len(req[r].path) > 1
     /\ MatchesKeyPattern(SubSeq(req[r].path, 2, Len(req[r].path)))
     /\ req[r].io # << >> /\ req[r].io[1].val = Null) =>
      /\ req[r].resp = [status |-> 302, page |-> "", value |-> "/"]
      /\ \A k \in DOMAIN store : store[k] # req[r].resp.value

C7_Witness ==
  \E r \in Reqs :
    /\ Done(r) /\ req[r].method = "GET"
    /\ req[r].io = <<[op |-> "get", key |-> "a1b2c3", val |-> Null]>>
    /\ req[r].resp.value = "/"
    /\ store # [k \in {} |-> ""]

\* C8: a step of a GET request changes neither the store nor the puts served,
\* and two GET /k for an existing key with no put between them are
\* redirected to the same target.
C8_GetReadOnly ==
  /\ [][\A r \in Reqs :
          (req[r].method = "GET" /\ req'[r] # req[r]) =>
             (store' = store /\ puts' = puts)]_vars
  /\ [](\A r1, r2 \in Reqs :
          (/\ Done(r1) /\ Done(r2)
           /\ req[r1].method = "GET" /\ req[r2].method = "GET"
           /\ req[r1].path = req[r2].path
           /\ req[r1].seen = req[r2].seen) =>
             req[r1].resp = req[r2].resp)

C8_Witness ==
  \E r1, r2 \in Reqs :
    /\ r1 # r2 /\ Done(r1) /\ Done(r2)
    /\ req[r1].io # << >> /\ req[r2].io # << >>
    /\ req[r1].method = "GET" /\ req[r2].method = "GET"
    /\ req[r1].path = req[r2].path /\ req[r1].seen = req[r2].seen
    /\ req[r1].io[1].val # Null
    /\ req[r1].resp.value = req[r2].resp.value
    /\ req[r1].resp.value \in FormUrls

\* C9 (as claimed): in Variant B a target has at most one key in every
\* reachable state.
C9_Dedup ==
  \A k1, k2 \in DOMAIN store : store[k1] = store[k2] => k1 = k2

\* both requests read key k as absent in their last frame and both put it
Raced(r1, r2, k) ==
  /\ r1 # r2 /\ Created(r1) /\ Created(r2)
  /\ req[r1].url # req[r2].url
  /\ req[r1].stack[Len(req[r1].stack)] = [key |-> k, result |-> Null]
  /\ req[r2].stack[Len(req[r2].stack)] = [key |-> k, result |-> Null]
  /\ HasPut(r1, k) /\ HasPut(r2, k)

\* C10: when two POST /create with different targets have both read the same
\* key as absent and both put it, the key holds the target of the last put,
\* both are answered with the result page, and if the key was the first
\* candidate of both, both pages show the same short URL.
C10_Race ==
  \A r1, r2 \in Reqs : \A k \in Keys :
    Raced(r1, r2, k) =>
      /\ store[k] = LastPutVal(k)
      /\ req[r1].resp.status = 200 /\ req[r2].resp.status = 200
      /\ (Len(req[r1].stack) = 1 /\ Len(req[r2].stack) = 1) =>
           /\ req[r1].resp.value = req[r2].resp.value
           /\ req[r1].resp.value = Origin \o "/" \o k

C10_Witness ==
  \E r1, r2 \in Reqs : \E k \in Keys :
    /\ Raced(r1, r2, k)
    /\ r1 < r2
    /\ Len(req[r1].stack) = 1 /\ Len(req[r2].stack) = 1
    /\ \E i, j \in 1..Len(puts) :
         i < j /\ puts[i].r = r2 /\ puts[j].r = r1 /\ store[k] = req[r1].url
    /\ req[r1].resp.value = req[r2].resp.value

\* request r is inside createKey and has not returned
InCreateKey(r) == req[r].pc \in {"call", "put"}

\* some candidate key is absent from the store
SomeKeyFree == \E k \in Keys : k \notin DOMAIN store

\* C11: under a fair draw, a call of createKey returns unless the candidates
\* run out; a call that has not accepted a candidate has found every
\* candidate it drew present, has raised no error and has put nothing.
C11_Termination ==
  /\ \A r \in Reqs : (InCreateKey(r) /\ SomeKeyFree) ~> (Done(r) \/ ~SomeKeyFree)
  /\ [](\A r \in Reqs :
          req[r].pc = "call" =>
            /\ \A i \in 1..Len(req[r].stack) : req[r].stack[i].result # Null
            /\ ~HasPutAny(r)
            /\ req[r].resp = NoResp)

C11_Witness ==
  \E r \in Reqs :
    /\ Created(r)
    /\ Len(req[r].stack) = MaxDepth
    /\ req[r].stack[Len(req[r].stack)].result = Null
    /\ HasPut(r, req[r].stack[Len(req[r].stack)].key)
    /\ \E p \in Reqs : req[p].pc = "call" /\ Len(req[p].stack) = MaxDepth

\* the puts request r has issued
PutsOf(r) == {i \in 1..Len(puts) : puts[i].r = r}

\* C12 (as claimed): a completed createKey call has issued exactly one put,
\* the put is (k, url) for a candidate k it read as absent, and the key the
\* handler gets back and shows is that k.
C12_ReturnsAcceptedKey ==
  \A r \in Reqs :
    (Created(r) /\ req[r].stack # << >>) =>
      LET f == req[r].stack[Len(req[r].stack)]
      IN /\ Cardinality(PutsOf(r)) = 1
         /\ \A i \in PutsOf(r) : puts[i].key = f.key /\ puts[i].val = req[r].url
         /\ f.result = Null
         /\ KeyShown(r) = f.key

\* the candidate keys that the route of GET /:key matches
RoutableKeys == {k \in Keys : MatchesKeyPattern(k)}

\* the form values that pass the validator's schema
ValidFormUrls == {u \in FormUrls : IsUrl(u)}

\* C13: every stored key is six characters of [0-9a-z], every stored value
\* is a string that passed the URL validator, and every put served was of
\* such a pair.
C13_StoreShape ==
  /\ \A k \in DOMAIN store : k \in RoutableKeys /\ store[k] \in ValidFormUrls
  /\ \A i \in 1..Len(puts) :
       puts[i].key \in RoutableKeys /\ puts[i].val \in ValidFormUrls

C13_Witness ==
  /\ DOMAIN store = Keys
  /\ \E r \in Reqs :
       /\ Done(r) /\ req[r].method = "GET" /\ req[r].io # << >>
       /\ req[r].io[1].key \in DOMAIN store
       /\ req[r].resp = Redirect(store[req[r].io[1].key])
====
